---- MODULE Spec2Model ----
(***************************************************************************)
(* Model of the screenplay analysis service (python-ai-service/main.py):   *)
(* the job queue (queued_analysis and its semaphore), the orchestrators    *)
(* process_text_analysis and process_pdf_analysis, the progress store and  *)
(* the result store calls they make.                                       *)
(*                                                                         *)
(* The service runs on one asyncio event loop: the code between two        *)
(* awaits that really suspend runs without interleaving.  Each action of   *)
(* this model is one such run of a job: from the point where the job is    *)
(* resumed to its next suspension point or to its end.  A run is written   *)
(* as an operator on the job's local state (the record built by Local),    *)
(* and Commit writes the result back.                                      *)
(***************************************************************************)
EXTENDS Integers, Sequences, FiniteSets, TLC

\* ------------------------------------------------------------------ bounds

\* Number of submissions in the orchestrator specification Spec.
NumJobs == 1

\* Number of submissions in the queue specification SpecQueue.
QueueJobs == 4

\* Number of failing calls the environment injects in SpecQueue.
QueueFaults == 1

\* Number of submissions in the progress stream specification SpecStream.
StreamJobs == 1

\* Number of failing calls the environment injects in SpecStream.
StreamFaults == 1

\* Number of submissions in the retry specification SpecRetry.
RetryJobs == 1

\* Number of jobs in the specifications SpecBudget and SpecClient.
PureJobs == 1

\* Number of analyze calls followed in SpecClient.
MaxCalls == 4

\* Number of jobs in the merge specification SpecMerge.
MergeJobs == 1

\* Number of jobs in the parse specification SpecRepair.
RepairJobs == 1

\* Number of submissions in the event loop specification SpecLoop.
LoopJobs == 2

\* Number of failing calls the environment injects in SpecLoop.
LoopFaults == 1

\* max_timeout of progress_stream, in polls; the program's value is 600.
max_timeout == 6

\* ------------------------------------------------------- program constants

MAX_CONCURRENT_ANALYSES == 3

\* The lower bounds of the tiers low, mid, high and tentpole (USD).
LOW_MIN == 1000000

MID_MIN == 5000000

HIGH_MIN == 20000000

TENTPOLE_MIN == 50000000

\* heartbeat_interval of progress_stream
heartbeat_interval == 5

\* retry_delays of _call_claude_api
RetryDelays == <<5, 10, 20, 30, 40, 50, 60>>

\* The tasks of the secondary fan-out, in the order they are appended.
Secondary == {"grok", "openai", "gpt5", "deepseek", "perplexity", "poster"}

\* The environment variable each client reads its credentials from.
KeyOf(p) ==
  CASE p = "grok"       -> "XAI_API_KEY"
    [] p = "openai"     -> "OPENAI_API_KEY"
    [] p = "gpt5"       -> "OPENAI_API_KEY"
    [] p = "source"     -> "OPENAI_API_KEY"
    [] p = "deepseek"   -> "DEEPSEEK_API_KEY"
    [] p = "perplexity" -> "PERPLEXITY_API_KEY"

ApiKeys == {"XAI_API_KEY", "OPENAI_API_KEY", "DEEPSEEK_API_KEY", "PERPLEXITY_API_KEY"}

\* Parameters of DeepSeekAnalyzer.analyze_financial_potential.
DeepSeekParams ==
  {"screenplay_text", "title", "genre", "budget_estimate", "comparable_films"}

\* Keyword arguments each orchestrator passes to analyze_financial_potential.
DeepSeekCallKwargs(k) ==
  IF k = "pdf"
    THEN {"screenplay_text", "title", "genre", "budget_estimate", "comparable_films",
          "include_incentive_analysis"}
    ELSE {"screenplay_text", "title", "genre", "budget_estimate", "comparable_films"}

\* ---------------------------------------------------------------- state

VARIABLES
  api_keys,             \* credentials present in the environment at start-up
  poster_enabled,       \* POSTER_GENERATION_ENABLED and poster_manager is not None
  kind,                 \* job -> "none" | "text" | "pdf"
  pc,                   \* job -> where the job's task is suspended
  attempt,              \* job -> index of the next attempt in _call_claude_api
  delay,                \* job -> seconds of the asyncio.sleep the call is in, else 0
  result,               \* job -> local `result` of the orchestrator
  source_result,        \* job -> local `source_result` of the orchestrator
  running,              \* job -> fan-out tasks still in flight
  loop_busy,            \* job whose synchronous call occupies the event loop, or 0
  sem_value,            \* analysis_semaphore._value
  waiters,              \* analysis_semaphore._waiters (FIFO)
  analysis_queue_size,  \* the global counter of queued_analysis
  status,               \* Result Store: job -> status column
  saved,                \* Result Store: job -> field groups of the saved record
  cost,                 \* Result Store: job -> `cost` column of the saved record
  ledger,               \* Usage Ledger: job -> rows of api_usage_tracking
  progress_store,       \* Progress Tracker: job -> latest event
  progress_time,        \* Progress Tracker: job -> 'timestamp' of the entry, 0 = no entry
  now,                  \* seconds slept by progress_stream (the clock of the model)
  stream_pc,            \* progress_stream: "off" | "polling" | "ended" | "timed_out"
  stream_id,            \* progress_stream: analysis_id it was opened for
  last_update,          \* progress_stream: local last_update
  timeout_count,        \* progress_stream: local timeout_count
  emitted,              \* stages of the messages yielded to the consumer
  last_emitted,         \* the messages yielded by the last step of the stream
  undelivered,          \* stages written while the consumer listens, not yielded
  idle_polls,           \* polls since the last update_progress for stream_id
  parser,               \* the parse step of a provider: its input, stage and output
  merger,               \* the merge step of an orchestrator: its inputs and db_data
  tiering,              \* categorize_budget: two amounts and their tiers
  openai_client,        \* the OpenAIAnalyzer instance: its fields and its calls
  hist,                 \* history of each job's calls (not program state)
  faults_left           \* failing calls the environment may still inject

vars == <<api_keys, poster_enabled, kind, pc, attempt, delay, result, source_result,
          running, loop_busy, sem_value, waiters, analysis_queue_size, status, saved,
          cost, ledger, progress_store, progress_time, now, stream_pc, stream_id,
          last_update, timeout_count, emitted, last_emitted, undelivered,
          idle_polls, parser,
          merger, tiering, openai_client, hist, faults_left>>

\* The steps that are followed on their own, outside a job.
pureVars == <<parser, merger, tiering, openai_client>>

\* The locals of progress_stream and the clock.
streamVars == <<now, stream_pc, stream_id, last_update, timeout_count, emitted,
                last_emitted>>

\* The state that only update_progress and progress_stream touch.
progressVars == <<progress_store, progress_time, undelivered, idle_polls>>

JobIds == DOMAIN pc

Unlimited == 0 - 1

\* The `cost` column of a record that no save_analysis has written (NULL).
NoCost == 0 - 1

NoProgress == [stage |-> "unknown", progress |-> 0]

Ev(s, p) == [stage |-> s, progress |-> p]

\* The gathered values of a job whose asyncio.gather has not returned.
NoRes ==
  [grok |-> "unset", openai |-> "unset", gpt5 |-> "unset", deepseek |-> "unset",
   perplexity |-> "unset", poster |-> "unset"]

\* What each call of a job did; "none"/"unset" = the call was never made.
NoHist ==
  [pdf |-> "none", source |-> "none", primary |-> "pending", callraised |-> {},
   res |-> NoRes, save |-> "none", upd |-> "none", exit |-> "none",
   waited |-> FALSE, total_cost |-> 0, untracked |-> {}, cause |-> "none",
   failed_attempt |-> 0, decreased |-> FALSE]

PrimaryOutcomes == {"ok", "overloaded", "error"}

\* A Result Store call succeeds, fails with a mysql Error (caught: the method
\* returns False) or fails with another exception (not caught by the method).
StoreOutcomes == {"ok", "false", "raise"}

\* Job bodies that are mid-execution: started and suspended at an await.
BodyPcs == {"source", "primary", "sleep", "gather"}

InBody == {j \in JobIds : pc[j] \in BodyPcs}

\* ------------------------------------------------------ clients' outcomes

\* A client without credentials is disabled; the poster task exists only
\* behind the feature flag.
IsEnabled(p) ==
  IF p = "poster" THEN poster_enabled ELSE KeyOf(p) \in api_keys

\* What the awaited task of client p can hand to gather:
\*   "none"   the None sentinel (disabled, or the failure was swallowed)
\*   "result" a result object of a successful call
\*   "failed" a result object with success = False
\*   "empty"  a poster collection with success_count = 0
\*   "raised" an exception escaped the task
TaskOutcomes(p) ==
  IF ~IsEnabled(p) THEN {"none"}
  ELSE CASE p \in {"grok", "openai", "gpt5"} -> {"result", "none", "raised"}
         [] p = "deepseek"                   -> {"result", "raised"}
         [] p = "perplexity"                 -> {"result", "failed", "raised"}
         [] p = "poster"                     -> {"result", "empty", "raised"}

\* The outcomes the environment counts as failures of a call.
IsFault(o) == o \in {"failed", "empty", "raised", "false", "raise", "overloaded", "error"}

\* Python truthiness of a gathered value after the isinstance(Exception) test.
Truthy(o) == o \in {"result", "failed", "empty"}

SourceOutcomes == {"ok", "failed"}

BudgetInputs == {"user", "estimated", "unavailable"}

PdfOutcomes == {"ok", "failed"}

\* --------------------------------------------------- a job's local state

Local(j) ==
  [kind |-> kind[j], pc |-> pc[j], attempt |-> attempt[j], delay |-> delay[j],
   result |-> result[j],
   source_result |-> source_result[j], running |-> running[j],
   status |-> status[j], saved |-> saved[j], cost |-> cost[j],
   ledger |-> ledger[j], hist |-> hist[j], evs |-> <<>>, spent |-> 0,
   progress |-> progress_store[j].progress]

\* update_progress: the event is appended to the events of this run; the
\* history notes a progress number below the one written before it.
Emit(L, s, p) ==
  [L EXCEPT !.evs = Append(@, Ev(s, p)), !.progress = p,
            !.hist.decreased = @ \/ p < L.progress]

Spend(L, o) == IF IsFault(o) THEN [L EXCEPT !.spent = @ + 1] ELSE L

\* Progress numbers that differ between the two orchestrators.
Pct(L, text, pdf) == IF L.kind = "pdf" THEN pdf ELSE text

\* update_analysis_status(analysis_id, 'error', ...) in the handler: the
\* UPDATE sets the status; on a mysql Error the method returns False, which
\* the handler ignores; any other exception leaves the handler.
UpdateStatus(L0, upd) ==
  LET L == Spend(L0, upd) IN
  [L EXCEPT !.pc = "done",
            !.status = IF upd = "ok" THEN "error" ELSE @,
            !.hist.upd = upd,
            !.hist.exit = IF upd = "raise" THEN "raise" ELSE "return"]

\* cost_tracker.track_usage for provider p: one row is appended to the
\* ledger, or the insert fails (track_usage logs the failure and returns
\* False, which no caller looks at).  (Each operator from here on gives the
\* set of local states a run can end in, one for every result of the calls
\* it makes.)
TrackUsage(L, p, ok, c) ==
  {[L EXCEPT !.ledger =
       Append(@, [provider |-> p, success |-> ok, cost |-> c, error |-> ~ok])],
   Spend([L EXCEPT !.hist.untracked = @ \cup {p}], "false")}

\* The outer `except Exception` of the orchestrators: the `error` event,
\* the status update, then one ledger row for the primary provider with
\* success=False and cost 0, whatever it was that failed.
ErrorHandler(L0) ==
  UNION {LET U == UpdateStatus(Emit(L0, "error", 0), upd) IN
         IF upd = "raise" THEN {U} ELSE TrackUsage(U, "claude", FALSE, 0)
         : upd \in StoreOutcomes}

\* The call of analyze_financial_potential fails before any task exists when
\* it is given a keyword the method does not take (TypeError).
TaskCreationRaises(k) == ~(DeepSeekCallKwargs(k) \subseteq DeepSeekParams)

\* The tasks handed to asyncio.gather that do not return at once.
Launch(L) == [L EXCEPT !.pc = "gather", !.running = {p \in Secondary : IsEnabled(p)}]

\* From the end of the primary call to the await of asyncio.gather.
AfterPrimary(L0) ==
  LET L1 == IF L0.result = "ok"
              THEN Emit(L0, "claude_complete", Pct(L0, 50, 45)) ELSE L0
      L2 == Emit(L1, "parallel_analysis", Pct(L1, 55, 50))
  IN IF TaskCreationRaises(L2.kind)
       THEN ErrorHandler([L2 EXCEPT !.hist.callraised = {"deepseek"}])
       ELSE {Launch(L2)}

\* Mutant of DelayBefore: every retry waits the first delay of the schedule.
DelayFlat(n) == RetryDelays[1]

\* retry_delays[attempt] for the sleep before attempt number n + 1 (the
\* code counts attempts from 0, the n-th sleep uses the n-th delay).
DelayBefore(n) == RetryDelays[n]

\* analyze_screenplay raised: the text orchestrator has no handler around the
\* call, the PDF orchestrator catches it and goes on without a result.
PrimaryFailed(L0) ==
  LET L == [L0 EXCEPT !.hist.primary = "failed", !.hist.failed_attempt = L0.attempt] IN
  IF L.kind = "pdf"
    THEN AfterPrimary(Emit([L EXCEPT !.result = "none"], "claude_failed", 35))
    ELSE ErrorHandler(L)

\* Mutant of SleepBeforeRetry: the tasks of the fan-out are started (as with
\* asyncio.create_task) while the primary call is still being retried.
SleepWithFanOut(L) ==
  [L EXCEPT !.pc = "sleep", !.delay = DelayBefore(L.attempt + 1), !.attempt = @ + 1,
            !.running = {p \in Secondary : IsEnabled(p)}]

\* asyncio.sleep(retry_delays[attempt]) before the next attempt.
SleepBeforeRetry(L) ==
  [L EXCEPT !.pc = "sleep", !.delay = DelayBefore(L.attempt + 1), !.attempt = @ + 1]

\* Mutant of AfterError: any error is retried like the overloaded one.
RetryAfterError(L) ==
  IF L.attempt < Len(RetryDelays) THEN {SleepBeforeRetry(L)} ELSE PrimaryFailed(L)

\* An exception that is not the overloaded condition: `raise`.
AfterError(L) == PrimaryFailed(L)

\* One attempt of _call_claude_api with result p, and what follows it
\* without suspension.
PrimaryResult(L0, p) ==
  LET L == Spend([L0 EXCEPT !.hist.cause = IF p = "ok" THEN "none" ELSE p], p) IN
  CASE p = "ok" -> AfterPrimary([L EXCEPT !.result = "ok", !.hist.primary = "ok"])
    [] p = "overloaded" ->
         IF L.attempt < Len(RetryDelays) THEN {SleepBeforeRetry(L)}
         ELSE PrimaryFailed(L)
    [] p = "error" -> AfterError(L)

PrimaryAttempt(L) == UNION {PrimaryResult(L, p) : p \in PrimaryOutcomes}

\* self.client.messages.create(...): the client is the synchronous
\* anthropic.Anthropic, the call is not awaited and does not return control
\* to the event loop before the response (or the error) is there.
CallPrimary(L) == [L EXCEPT !.pc = "primary", !.delay = 0]

\* From the return of analyze_source_material to the primary call, with
\* budget input b.
BudgetThenPrimary(L0, b) ==
  LET L1 == IF L0.source_result = "ok"
              THEN Emit(L0, "source_complete", Pct(L0, 20, 25))
              ELSE Emit(L0, "source_skipped", Pct(L0, 20, 25))
      L2 == IF b = "estimated"
              THEN Emit(L1, "budget_estimated", Pct(L1, 22, 27)) ELSE L1
      L3 == Emit(L2, "claude_analysis", Pct(L2, 25, 30))
  IN {CallPrimary([L3 EXCEPT !.attempt = 0])}

AfterSource(L) == UNION {BudgetThenPrimary(L, b) : b \in BudgetInputs}

\* analyze_source_material returned r: a result object, with success =
\* False after a failure.
SourceResult(L, r) ==
  Spend([L EXCEPT !.source_result = r, !.hist.source = r], r)

\* analyze_source_material returns None at once without credentials,
\* otherwise it awaits the HTTP call.
CallSource(L0) ==
  LET L == Emit(L0, "source_analysis", Pct(L0, 15, 20)) IN
  IF IsEnabled("source")
    THEN {[L EXCEPT !.pc = "source"]}
    ELSE AfterSource([L EXCEPT !.source_result = "none"])

\* process_pdf returned r: a failed extraction is raised as an exception.
PdfResult(L0, r) ==
  LET L == Spend([L0 EXCEPT !.hist.pdf = r], r) IN
  IF r = "ok" THEN CallSource(Emit(L, "pdf_complete", 20)) ELSE ErrorHandler(L)

\* The orchestrator from its first statement to its first suspension.
StartBody(L0) ==
  LET L == Emit(L0, "starting", 5) IN
  IF L.kind = "pdf"
    THEN UNION {PdfResult(Emit(L, "pdf_processing", 10), r) : r \in PdfOutcomes}
    ELSE CallSource(L)

\* The progress event for one gathered value: nothing for an exception (it
\* is only logged), `complete` for a usable result, otherwise `skipped`
\* where the orchestrator has that branch.
Report(L, o, done, doneStage, skipStage, pct) ==
  IF o = "raised" THEN L
  ELSE IF done THEN Emit(L, doneStage, pct)
  ELSE IF skipStage = "" THEN L
  ELSE Emit(L, skipStage, pct)

\* The handling of parallel_results, up to the `saving` event.
HandleResults(L0, res) ==
  LET pdf == L0.kind = "pdf"
      L1 == Report(L0, res["grok"], Truthy(res["grok"]), "grok_complete",
                   IF pdf THEN "grok_skipped" ELSE "", 70)
      L2 == Report(L1, res["openai"], Truthy(res["openai"]), "openai_complete",
                   "openai_skipped", 75)
      L3 == Report(L2, res["gpt5"], Truthy(res["gpt5"]), "gpt5_complete",
                   "gpt5_skipped", Pct(L2, 80, 78))
      L4 == IF pdf THEN L3
            ELSE Report(L3, res["deepseek"], Truthy(res["deepseek"]),
                        "deepseek_complete", "deepseek_skipped", 82)
      L5 == IF pdf THEN L4
            ELSE Report(L4, res["perplexity"], Truthy(res["perplexity"]),
                        "perplexity_complete", "perplexity_skipped", 84)
      L6 == Report(L5, res["poster"], res["poster"] = "result", "posters_complete",
                   "posters_skipped", Pct(L5, 85, 80))
  IN Emit(L6, "saving", Pct(L6, 92, 90))

\* The field groups of db_data: the primary's, then every truthy gathered
\* value and a truthy source result, merged by dict.update.
Merged(L, res) ==
  {"claude"} \cup {p \in Secondary : Truthy(res[p])}
             \cup (IF L.source_result \in {"ok", "failed"} THEN {"source"} ELSE {})

\* The cost field of a gathered value or of a source result: positive (one
\* unit here) on a result of a successful call, 0 on a result object built
\* after a failure; None has no cost and counts 0 in the sums.
CostOf(o) == IF o \in {"result", "ok"} THEN 1 ELSE 0

\* total_cost as computed for the details of the `complete` event.
TotalCost(L) ==
  LET res == L.hist.res IN
  CostOf(L.result) + CostOf(res["grok"]) + CostOf(res["openai"]) + CostOf(res["gpt5"])
    + CostOf(res["deepseek"]) + CostOf(res["perplexity"]) + CostOf(res["poster"])
    + CostOf(L.source_result)

\* Mutant of AfterSave: a statement after the successful save raises, and
\* the outer handler marks the saved job as failed.
AfterSaveRaises(L) == UpdateStatus(Emit(L, "error", 0), "ok")

\* After save_analysis returned True: total_cost and the `complete` event;
\* nothing from here to the end raises (track_usage swallows its own
\* errors).
AfterSave(L) ==
  [Emit(L, "complete", 100) EXCEPT !.pc = "done", !.hist.exit = "return",
                                   !.hist.total_cost = TotalCost(L)]

\* The secondary providers whose usage the orchestrator tracks after a
\* successful save, in the order of the calls.
TrackedSecondaries(k) == IF k = "pdf" THEN <<"grok">> ELSE <<"grok", "openai">>

RECURSIVE TrackEach(_, _)
TrackEach(Ls, ps) ==
  IF ps = <<>> THEN Ls
  ELSE TrackEach(UNION {TrackUsage(L, Head(ps), TRUE, CostOf(L.hist.res[Head(ps)]))
                        : L \in Ls},
                 Tail(ps))

\* The track_usage calls after the `complete` event: the primary provider,
\* then each tracked secondary provider whose result is truthy.
TrackSuccess(L) ==
  LET HasResult(p) == Truthy(L.hist.res[p]) IN
  TrackEach(TrackUsage(L, "claude", TRUE, CostOf(L.result)),
            SelectSeq(TrackedSecondaries(L.kind), HasResult))

\* Mutant of SaveResult: the return value of save_analysis is not tested.
SaveResultUnchecked(L0, res, s) ==
  TrackSuccess(AfterSave(Spend([L0 EXCEPT !.hist.save = s], s)))

\* save_analysis with result s: INSERT ... ON DUPLICATE KEY UPDATE of the
\* whole record, status column included (to_database_format sets it to
\* 'completed') and cost column (to_database_format sets it to the primary
\* result's cost; no merged dict has a 'cost' key); False or an exception
\* ends in the handler.
SaveResult(L0, res, s) ==
  LET L == Spend([L0 EXCEPT !.hist.save = s], s) IN
  IF s = "ok"
    THEN TrackSuccess(AfterSave([L EXCEPT !.status = "completed",
                                          !.saved = Merged(L, res),
                                          !.cost = CostOf(L.result)]))
    ELSE ErrorHandler(L)

SaveAnalysis(L, res) == UNION {SaveResult(L, res, s) : s \in StoreOutcomes}

\* Number of gathered values that are failures of their client.
FaultCount(res) == Cardinality({p \in Secondary : IsFault(res[p])})

\* parallel_results: one value per task, in the order of the tasks.
GatherResults ==
  [grok : TaskOutcomes("grok"), openai : TaskOutcomes("openai"),
   gpt5 : TaskOutcomes("gpt5"), deepseek : TaskOutcomes("deepseek"),
   perplexity : TaskOutcomes("perplexity"), poster : TaskOutcomes("poster")]

\* The orchestrator from the return of asyncio.gather with values res to
\* its end.  to_database_format(result) raises AttributeError when result
\* is None.
AfterGather(L0, res) ==
  LET L1 == [L0 EXCEPT !.hist.res = res, !.spent = @ + FaultCount(res)]
      L2 == HandleResults(L1, res)
  IN IF L2.result = "ok" THEN SaveAnalysis(L2, res) ELSE ErrorHandler(L2)

FinishBody(L) == UNION {AfterGather(L, res) : res \in GatherResults}

\* ------------------------------------------------------------ semaphore

\* Mutant of Locked: acquire() never finds the semaphore taken.
LockedNever == FALSE

\* asyncio.Semaphore.locked()
Locked == sem_value = 0 \/ waiters # <<>>

\* Mutant of SlotsAfterExit: release() only after a normal return, as with
\* acquire() ... release() written without try/finally.
SlotsAfterExitNoFinally(v, L) == IF L.hist.exit = "raise" THEN v ELSE v + 1

\* The exit of `async with analysis_semaphore`: release() on every exit of
\* the block, by return or by exception.
SlotsAfterExit(v, L) == v + 1

\* ---------------------------------------------------------------- actions

Affordable(L) == faults_left = Unlimited \/ L.spent <= faults_left

\* time.time() in update_progress: the stream's polls are one second apart,
\* a write falls between two polls (times are counted in half seconds).
WriteTime == 2 * now + 1

\* A consumer is connected to the progress stream of job j.
Listening(j) == stream_pc = "polling" /\ stream_id = j

\* The event loop runs one callback at a time: nothing else runs while a
\* synchronous call is in progress.
LoopFree == loop_busy = 0

\* Writes a run's result back: the job's variables (the orchestrator's locals
\* no longer exist once it has returned), the last progress event of the run,
\* and the environment's remaining faults.
Commit(j, L) ==
  /\ Affordable(L)
  /\ loop_busy' = IF L.pc = "primary" THEN j ELSE 0
  /\ faults_left' = IF faults_left = Unlimited THEN Unlimited
                    ELSE faults_left - L.spent
  /\ pc' = [pc EXCEPT ![j] = L.pc]
  /\ attempt' = [attempt EXCEPT ![j] = IF L.pc = "done" THEN 0 ELSE L.attempt]
  /\ delay' = [delay EXCEPT ![j] = L.delay]
  /\ result' = [result EXCEPT ![j] = IF L.pc = "done" THEN "unset" ELSE L.result]
  /\ source_result' =
       [source_result EXCEPT ![j] = IF L.pc = "done" THEN "unset" ELSE L.source_result]
  /\ running' = [running EXCEPT ![j] = L.running]
  /\ status' = [status EXCEPT ![j] = L.status]
  /\ saved' = [saved EXCEPT ![j] = L.saved]
  /\ cost' = [cost EXCEPT ![j] = L.cost]
  /\ ledger' = [ledger EXCEPT ![j] = L.ledger]
  /\ hist' = [hist EXCEPT ![j] = L.hist]
  /\ progress_store' =
       IF L.evs = <<>> THEN progress_store
       ELSE [progress_store EXCEPT ![j] = L.evs[Len(L.evs)]]
  /\ progress_time' =
       IF L.evs = <<>> THEN progress_time
       ELSE [progress_time EXCEPT ![j] = WriteTime]
  /\ undelivered' =
       IF Listening(j) THEN undelivered \cup {L.evs[i].stage : i \in DOMAIN L.evs}
       ELSE undelivered
  /\ idle_polls' = IF Listening(j) /\ L.evs # <<>> THEN 0 ELSE idle_polls
  /\ UNCHANGED <<api_keys, poster_enabled, kind, streamVars, pureVars>>

\* The semaphore after a run that began holding a slot.
KeepOrRelease(L) ==
  sem_value' = IF L.pc = "done" THEN SlotsAfterExit(sem_value, L) ELSE sem_value

\* The semaphore after a run that began by acquiring a slot.
AcquireThenRun(L) ==
  sem_value' = IF L.pc = "done" THEN SlotsAfterExit(sem_value - 1, L)
               ELSE sem_value - 1

\* The endpoints analyze_text / analyze_pdf: the initial record is inserted
\* with status 'processing' and queued_analysis is scheduled.
Submit(j) ==
  /\ LoopFree
  /\ pc[j] = "idle"
  /\ \E k \in {"text", "pdf"} : kind' = [kind EXCEPT ![j] = k]
  /\ pc' = [pc EXCEPT ![j] = "submitted"]
  /\ status' = [status EXCEPT ![j] = "processing"]
  /\ UNCHANGED <<api_keys, poster_enabled, attempt, delay, result, source_result, running,
                 loop_busy, sem_value, waiters, analysis_queue_size, saved, cost, ledger,
                 progressVars, streamVars, pureVars, hist, faults_left>>

\* queued_analysis from its first statement: the counter is incremented, and
\* either the semaphore is free and the body starts in the same run, or the
\* task is appended to the semaphore's waiters.  (Job identifiers carry no
\* meaning in the program; the model numbers the jobs in the order in which
\* their queued_analysis tasks start.)
Enter(j) ==
  /\ LoopFree
  /\ pc[j] = "submitted"
  /\ \A i \in JobIds : i < j => pc[i] \notin {"idle", "submitted"}
  /\ IF Locked
       THEN /\ pc' = [pc EXCEPT ![j] = "waiting"]
            /\ waiters' = Append(waiters, j)
            /\ analysis_queue_size' = analysis_queue_size + 1
            /\ hist' = [hist EXCEPT ![j].waited = TRUE]
            /\ UNCHANGED <<api_keys, poster_enabled, kind, attempt, delay, result,
                           source_result, running, loop_busy, sem_value, status, saved,
                           cost, ledger, progressVars, streamVars, pureVars, faults_left>>
       ELSE /\ \E L \in StartBody(Local(j)) :
                 Commit(j, L) /\ AcquireThenRun(L)
            /\ UNCHANGED <<waiters, analysis_queue_size>>

\* Mutant of AfterAcquire: the counter is left as it is once the slot is
\* acquired.
AfterAcquireKept(n) == n

\* `analysis_queue_size -= 1`, the first statement under the semaphore.
AfterAcquire(n) == n - 1

\* A released slot wakes the first waiter, which then starts its body.
Wake(j) ==
  /\ LoopFree
  /\ pc[j] = "waiting"
  /\ waiters # <<>> /\ Head(waiters) = j
  /\ sem_value > 0
  /\ waiters' = Tail(waiters)
  /\ analysis_queue_size' = AfterAcquire(analysis_queue_size)
  /\ \E L \in StartBody(Local(j)) :
       Commit(j, L) /\ AcquireThenRun(L)

\* analyze_source_material returns.
SourceReturn(j) ==
  /\ LoopFree
  /\ pc[j] = "source"
  /\ \E src \in SourceOutcomes :
       \E L \in AfterSource(SourceResult(Local(j), src)) :
         Commit(j, L) /\ KeepOrRelease(L)
  /\ UNCHANGED <<waiters, analysis_queue_size>>

\* asyncio.sleep(delay) of the retry loop returns: the next attempt begins.
RetryWake(j) ==
  /\ LoopFree
  /\ pc[j] = "sleep"
  /\ Commit(j, CallPrimary(Local(j))) /\ KeepOrRelease(CallPrimary(Local(j)))
  /\ UNCHANGED <<waiters, analysis_queue_size>>

\* The synchronous call of the primary provider returns or raises, and the
\* job runs on to its next suspension.
PrimaryReturn(j) ==
  /\ loop_busy = j
  /\ pc[j] = "primary"
  /\ \E L \in PrimaryAttempt(Local(j)) :
       Commit(j, L) /\ KeepOrRelease(L)
  /\ UNCHANGED <<waiters, analysis_queue_size>>

\* One task of the fan-out completes.
Settle(j, p) ==
  /\ LoopFree
  /\ pc[j] = "gather"
  /\ p \in running[j]
  /\ running' = [running EXCEPT ![j] = @ \ {p}]
  /\ UNCHANGED <<api_keys, poster_enabled, kind, pc, attempt, delay, result, source_result,
                 loop_busy, sem_value, waiters, analysis_queue_size, status, saved,
                 cost, ledger, progressVars, streamVars, pureVars, hist, faults_left>>

\* Mutant of GatherReturns: the await ends as soon as one task has ended (as
\* gather without return_exceptions does on the first exception), whatever
\* is still running.
GatherShortCircuits(r) == TRUE

\* asyncio.gather(*tasks, return_exceptions=True) returns once every task
\* has completed, r being the tasks still running.
GatherReturns(r) == r = {}

\* The orchestrator from the return of asyncio.gather to its end.
Finish(j) ==
  /\ LoopFree
  /\ pc[j] = "gather"
  /\ GatherReturns(running[j])
  /\ \E L \in FinishBody(Local(j)) :
       Commit(j, L) /\ KeepOrRelease(L)
  /\ UNCHANGED <<waiters, analysis_queue_size>>

\* ------------------------------------------------------- progress stream

\* The variables of the jobs, the queue and the stores.
jobVars == <<api_keys, poster_enabled, kind, pc, attempt, delay, result, source_result,
             running, loop_busy, sem_value, waiters, analysis_queue_size, status,
             saved, cost, ledger, progress_store, progress_time, hist, faults_left>>

\* The polls the model follows a stream for.
MaxClock == max_timeout + 3

\* get_progress(analysis_id): the entry, or the not-found default, whose
\* 'timestamp' is time.time() at the call.
get_progress(j, t) ==
  IF progress_time[j] # 0
    THEN [event |-> progress_store[j], timestamp |-> progress_time[j]]
    ELSE [event |-> NoProgress, timestamp |-> 2 * t]

\* The connection confirmation, the first message of every stream.
Connected == [heartbeat |-> TRUE, connected |-> TRUE]

\* The heartbeat message.
Heartbeat == [heartbeat |-> TRUE]

\* The message of the finally block of progress_stream.
StreamEnded == Ev("stream_ended", 100)

\* Mutant of HeartbeatDue: every idle poll yields a heartbeat.
HeartbeatAlways(n) == TRUE

\* `timeout_count % heartbeat_interval == 0`, tested before the increment.
HeartbeatDue(n) == n % heartbeat_interval = 0

\* Mutant of Finally: the generator returns without a last message.
FinallySilent(msgs) == msgs

\* The finally block runs when the generator leaves the loop: the messages
\* of the step, then `stream_ended`.
Finally(msgs) == Append(msgs, StreamEnded)

\* `progress >= 100 or stage in ['complete', 'error']`
EndsStream(ev) == ev.progress >= 100 \/ ev.stage \in {"complete", "error"}

\* GET /progress/{analysis_id}: progress_stream up to its first poll; the
\* connection confirmation is yielded.
StreamOpen(j) ==
  /\ LoopFree
  /\ stream_pc = "off"
  /\ stream_pc' = "polling"
  /\ stream_id' = j
  /\ last_update' = 0
  /\ timeout_count' = 0
  /\ emitted' = {"connected"}
  /\ last_emitted' = <<Connected>>
  /\ UNCHANGED <<jobVars, now, undelivered, idle_polls, pureVars>>

\* One iteration of the while loop of progress_stream, entered after the
\* one-second sleep of the iteration before: a newer entry is yielded (and
\* ends the stream when it is terminal), otherwise timeout_count goes up
\* and every heartbeat_interval-th idle poll yields a heartbeat.
StreamPoll ==
  /\ LoopFree
  /\ stream_pc = "polling"
  /\ timeout_count < max_timeout
  /\ now < MaxClock
  /\ now' = now + 1
  /\ idle_polls' = idle_polls + 1
  /\ LET cur == get_progress(stream_id, now + 1)
         ev == cur.event
     IN IF cur.timestamp > last_update
          THEN /\ last_update' = cur.timestamp
               /\ timeout_count' = 0
               /\ undelivered' = undelivered \ {ev.stage}
               /\ IF EndsStream(ev)
                    THEN /\ stream_pc' = "ended"
                         /\ emitted' = emitted \cup {ev.stage, "stream_ended"}
                         /\ last_emitted' = Finally(<<ev>>)
                    ELSE /\ stream_pc' = "polling"
                         /\ emitted' = emitted \cup {ev.stage}
                         /\ last_emitted' = <<ev>>
          ELSE /\ timeout_count' = timeout_count + 1
               /\ emitted' = IF HeartbeatDue(timeout_count)
                               THEN emitted \cup {"heartbeat"} ELSE emitted
               /\ last_emitted' = IF HeartbeatDue(timeout_count)
                                    THEN <<Heartbeat>> ELSE <<>>
               /\ UNCHANGED <<last_update, undelivered, stream_pc>>
  /\ UNCHANGED <<jobVars, stream_id, pureVars>>

\* The while condition fails after max_timeout idle polls in a row: the
\* generator leaves the loop and yields `stream_ended`.
StreamTimeout ==
  /\ LoopFree
  /\ stream_pc = "polling"
  /\ timeout_count >= max_timeout
  /\ stream_pc' = "timed_out"
  /\ emitted' = emitted \cup {"stream_ended"}
  /\ last_emitted' = Finally(<<>>)
  /\ UNCHANGED <<jobVars, now, stream_id, last_update, timeout_count, undelivered,
                 idle_polls, pureVars>>

\* ------------------------------------------------------ response parsing

\* A text is a sequence of pieces: a piece is one structural character of
\* JSON, a blank, or a run of other characters (a word or a number).
Quote == "\""

Backslash == "\\"

\* Runs of digits.
Numbers == {"7"}

\* The characters json.loads accepts after a backslash inside a string
\* (\uXXXX is left out).
Escapable == {Quote, Backslash, "/", "b", "f", "n", "r", "t"}

\* The sections _validate_enhanced_response copies with `.get`.
SectionKeys ==
  {"cultural_reality_check", "demographic_authenticity_audit",
   "brutal_honesty_assessment", "discourse_prediction_engine",
   "genre_freshness_assessment", "market_positioning_intelligence",
   "controversy_analysis"}

\* The fields of cultural_reality_check that go through min(10, max(1, .)).
ClampedKeys == {"cringe_factor", "zeitgeist_score"}

\* str.count
Count(s, c) == Cardinality({i \in DOMAIN s : s[i] = c})

\* c repeated n times.
Repeat(c, n) == [i \in 1..n |-> c]

\* Iterations of `while closed < opened: ...; closed += 1`.
Missing(opened, closed) == IF closed < opened THEN opened - closed ELSE 0

\* _fix_truncated_json: the counts are taken over the whole string; a quote
\* is appended when the number of quotes is odd, then every missing `]`,
\* then every missing `}`.
fix_truncated_json(json_str) ==
  LET open_braces == Count(json_str, "{")
      close_braces == Count(json_str, "}")
      open_brackets == Count(json_str, "[")
      close_brackets == Count(json_str, "]")
      quoted == IF Count(json_str, Quote) % 2 = 1
                  THEN Append(json_str, Quote) ELSE json_str
  IN quoted \o Repeat("]", Missing(open_brackets, close_brackets))
            \o Repeat("}", Missing(open_braces, close_braces))

\* The scanner of json.loads from piece i on. `mode` is what the grammar
\* expects next, `stack` the open containers, `ev` the structure decoded so
\* far, written as a bracketed sequence: obj( key( .. )key value .. )obj,
\* arr( value .. )arr, str( pieces )str, num( digits. The result carries the
\* mode and the stack the scanner stopped with.
RECURSIVE Scan(_, _, _, _, _)
Scan(s, i, mode, stack, ev) ==
  IF i > Len(s)
    THEN [ok |-> mode = "after" /\ stack = <<>>, ev |-> ev, mode |-> mode,
          stack |-> stack]
    ELSE
      LET c == s[i]
          Fail == [ok |-> FALSE, ev |-> ev, mode |-> "fail", stack |-> stack]
          Pop == SubSeq(stack, 1, Len(stack) - 1)
          Top == IF stack = <<>> THEN "" ELSE stack[Len(stack)]
          Value ==
            IF c = "{" THEN Scan(s, i + 1, "key_or_end", Append(stack, "{"),
                                 Append(ev, "obj("))
            ELSE IF c = "[" THEN Scan(s, i + 1, "value_or_end", Append(stack, "["),
                                      Append(ev, "arr("))
            ELSE IF c = Quote THEN Scan(s, i + 1, "vstr", stack, Append(ev, "str("))
            ELSE IF c \in Numbers THEN Scan(s, i + 1, "after", stack,
                                            ev \o <<"num(", c>>)
            ELSE Fail
          Key ==
            IF c = Quote THEN Scan(s, i + 1, "kstr", stack, Append(ev, "key("))
            ELSE Fail
      IN CASE mode \in {"kstr", "vstr"} ->
                IF c = Quote
                  THEN IF mode = "kstr"
                         THEN Scan(s, i + 1, "colon", stack, Append(ev, ")key"))
                         ELSE Scan(s, i + 1, "after", stack, Append(ev, ")str"))
                ELSE IF c = Backslash
                  THEN Scan(s, i + 1, IF mode = "kstr" THEN "kesc" ELSE "vesc",
                            stack, ev)
                ELSE Scan(s, i + 1, mode, stack, Append(ev, c))
           [] mode \in {"kesc", "vesc"} ->
                IF c \in Escapable
                  THEN Scan(s, i + 1, IF mode = "kesc" THEN "kstr" ELSE "vstr",
                            stack, Append(ev, c))
                  ELSE Fail
           [] c = " " -> Scan(s, i + 1, mode, stack, ev)
           [] mode = "value" -> Value
           [] mode = "value_or_end" ->
                IF c = "]" THEN Scan(s, i + 1, "after", Pop, Append(ev, ")arr"))
                ELSE Value
           [] mode = "key" -> Key
           [] mode = "key_or_end" ->
                IF c = "}" THEN Scan(s, i + 1, "after", Pop, Append(ev, ")obj"))
                ELSE Key
           [] mode = "colon" ->
                IF c = ":" THEN Scan(s, i + 1, "value", stack, ev) ELSE Fail
           [] mode = "after" ->
                IF Top = "{" /\ c = "," THEN Scan(s, i + 1, "key", stack, ev)
                ELSE IF Top = "{" /\ c = "}"
                  THEN Scan(s, i + 1, "after", Pop, Append(ev, ")obj"))
                ELSE IF Top = "[" /\ c = "," THEN Scan(s, i + 1, "value", stack, ev)
                ELSE IF Top = "[" /\ c = "]"
                  THEN Scan(s, i + 1, "after", Pop, Append(ev, ")arr"))
                ELSE Fail
           [] OTHER -> Fail

\* json.loads(s): ok is FALSE where json.loads raises JSONDecodeError.
json_loads(s) == Scan(s, 1, "value", <<>>, <<>>)

\* Index of the first piece of s after position i that equals c, 0 if none.
Find(s, c, i) ==
  IF \E k \in (i + 1)..Len(s) : s[k] = c
    THEN CHOOSE k \in (i + 1)..Len(s) :
           s[k] = c /\ \A m \in (i + 1)..(k - 1) : s[m] # c
    ELSE 0

\* Index of the last piece of s that equals c, 0 if none.
FindLast(s, c) ==
  IF \E k \in DOMAIN s : s[k] = c
    THEN CHOOSE k \in DOMAIN s : s[k] = c /\ \A m \in (k + 1)..Len(s) : s[m] # c
    ELSE 0

\* re.search(r'\{[\s\S]*\}', response): from the first `{` to the last `}`;
\* the empty sequence stands for no match.
SearchObject(response) ==
  LET a == Find(response, "{", 0)
      b == FindLast(response, "}")
  IN IF a # 0 /\ b > a THEN SubSeq(response, a, b) ELSE <<>>

\* re.search(r'\{[\s\S]*', response): from the first `{` to the end.
SearchOpenObject(response) ==
  LET a == Find(response, "{", 0)
  IN IF a # 0 THEN SubSeq(response, a, Len(response)) ELSE <<>>

\* The keys of the decoded object and of the objects that are its direct
\* values, each with the kind of its value: d counts the open containers,
\* top is the key of the outer object read last.
RECURSIVE Fields(_, _, _, _)
Fields(ev, i, d, top) ==
  IF i > Len(ev) THEN {}
  ELSE IF ev[i] \in {"obj(", "arr("} THEN Fields(ev, i + 1, d + 1, top)
  ELSE IF ev[i] \in {")obj", ")arr"} THEN Fields(ev, i + 1, d - 1, top)
  ELSE IF ev[i] = "key("
    THEN LET e == Find(ev, ")key", i)
             key == SubSeq(ev, i + 1, e - 1)
         IN IF d = 1
              THEN {[path |-> <<key>>, kind |-> ev[e + 1]]}
                     \cup Fields(ev, e + 1, d, key)
            ELSE IF d = 2
              THEN {[path |-> <<top, key>>, kind |-> ev[e + 1]]}
                     \cup Fields(ev, e + 1, d, top)
            ELSE Fields(ev, e + 1, d, top)
  ELSE Fields(ev, i + 1, d, top)

\* _validate_enhanced_response raises: a section that is not an object has
\* no `.get` (AttributeError), and max(1, x) does not compare a clamped
\* field that is not a number (TypeError).
validate_enhanced_response_raises(ev) ==
  \E f \in Fields(ev, 1, 0, <<>>) :
    \/ /\ Len(f.path) = 1
       /\ \E k \in SectionKeys : f.path[1] = <<k>>
       /\ f.kind # "obj("
    \/ /\ Len(f.path) = 2
       /\ f.path[1] = <<"cultural_reality_check">>
       /\ \E k \in ClampedKeys : f.path[2] = <<k>>
       /\ f.kind # "num("

\* _parse_response: "validated" is the return of _validate_enhanced_response,
\* "fallback" the return of _fallback_parse, "raise" an exception leaving
\* the function. Only JSONDecodeError of the first attempt is handled; the
\* second attempt is inside a bare except.
parse_response(response) ==
  LET json_match == SearchObject(response)
      first == json_loads(fix_truncated_json(json_match))
      second == json_loads(fix_truncated_json(SearchOpenObject(response)))
  IN IF json_match = <<>> THEN "fallback"
     ELSE IF first.ok
       THEN IF validate_enhanced_response_raises(first.ev)
              THEN "raise" ELSE "validated"
     ELSE IF second.ok /\ ~validate_enhanced_response_raises(second.ev)
       THEN "validated"
     ELSE "fallback"

\* analyze: any exception of the call or of the parse step is caught and
\* None is returned, which the orchestrator counts as a failed provider.
analyze(outcome) == IF outcome = "raise" THEN "none" ELSE "result"

\* The complete texts a provider answers with; max_tokens may cut any of
\* them short.
Documents ==
  { <<"{", Quote, "score", Quote, ":", "7", "}">>,
    <<"{", Quote, "score", Quote, ":", " ", "7", "}">>,
    <<"text", "{", Quote, "score", Quote, ":", "7", "}", "text">>,
    <<"text">>,
    <<"{", Quote, "score", Quote, ":", "7", ",",
      Quote, "cultural_reality_check", Quote, ":",
      "{", Quote, "cringe_factor", Quote, ":", "7", "}", "}">>,
    <<"{", Quote, "score", Quote, ":", "7", ",",
      Quote, "cultural_reality_check", Quote, ":", Quote, "text", Quote, "}">>,
    <<"{", Quote, "cultural_reality_check", Quote, ":",
      "{", Quote, "cringe_factor", Quote, ":", Quote, "text", Quote, "}", "}">>,
    <<"{", Quote, "discourse_prediction_engine", Quote, ":",
      "{", Quote, "think_piece_titles", Quote, ":",
      "[", Quote, "text", Quote, ",", Quote, "text", Quote, "]", "}", "}">>,
    <<"{", Quote, "comparables", Quote, ":",
      "[", "{", Quote, "score", Quote, ":", "7", "}", "]", "}">>,
    <<"{", Quote, "verdict", Quote, ":", Quote, "{", Quote, "}">>,
    <<"{", Quote, "verdict", Quote, ":", Quote, "[", Quote, "}">>,
    <<"{", Quote, "verdict", Quote, ":",
      Quote, "text", Backslash, Quote, "text", Quote, "}">> }

\* No response is being parsed.
NoParse ==
  [pc |-> "off", document |-> <<>>, response |-> <<>>, json_str |-> <<>>,
   outcome |-> "none"]

\* The provider's answer arrives, complete or cut after n pieces.
Respond(n) ==
  /\ parser.pc = "answering"
  /\ n \in 1..Len(parser.document)
  /\ parser' = [parser EXCEPT !.pc = "received",
                              !.response = SubSeq(parser.document, 1, n)]
  /\ UNCHANGED <<jobVars, streamVars, undelivered, idle_polls, merger, tiering,
                 openai_client>>

\* _fix_truncated_json applied to the text received.
FixTruncated ==
  /\ parser.pc = "received"
  /\ parser' = [parser EXCEPT !.pc = "fixed",
                              !.json_str = fix_truncated_json(parser.response)]
  /\ UNCHANGED <<jobVars, streamVars, undelivered, idle_polls, merger, tiering,
                 openai_client>>

\* _parse_response applied to the text received.
ParseResponse ==
  /\ parser.pc = "received"
  /\ parser' = [parser EXCEPT !.pc = "parsed",
                              !.outcome = parse_response(parser.response)]
  /\ UNCHANGED <<jobVars, streamVars, undelivered, idle_polls, merger, tiering,
                 openai_client>>

\* ----------------------------------------------------------- the merge step

\* The secondary clients in the order their results are merged.
MergeOrder == <<"grok", "openai", "gpt5", "deepseek", "perplexity", "poster">>

\* Keys of ClaudeOpusAnalyzer.to_database_format.
PrimaryKeys ==
  {"id", "title", "genre", "detected_genre", "subgenre", "overall_score",
   "recommendation", "one_line_verdict", "logline", "executive_summary",
   "structural_analysis", "character_analysis", "thematic_depth",
   "craft_evaluation", "genre_mastery", "top_strengths", "key_weaknesses",
   "suggestions", "improvement_strategies", "commercial_viability",
   "target_audience", "comparable_films", "casting_suggestions", "casting_vision",
   "director_recommendation", "ai_model", "confidence_level", "processing_time",
   "cost", "status", "raw_api_request", "raw_api_response"}

\* Keys of the source analyzer's to_database_format.
SourceKeys ==
  {"source_has_material", "source_type", "source_title", "source_author",
   "source_description", "source_adaptation_notes",
   "source_commercial_implications", "source_legal_considerations",
   "source_market_advantages", "source_potential_challenges",
   "source_confidence_score", "source_raw_detection_text",
   "source_processing_time", "source_cost", "source_success",
   "source_error_message"}

\* Keys of the last db_data.update({...}) of the orchestrator.
JobKeys ==
  {"id", "user_id", "original_filename", "file_path", "file_size",
   "budget_category", "ai_budget_min", "ai_budget_optimal", "ai_budget_max",
   "budget_notes"}

\* Mutant of DbKeys: Grok and OpenAI write their common fields without the
\* provider's prefix.
DbKeysUnprefixed(p) ==
  IF p \in {"grok", "openai"}
    THEN {"score", "recommendation", "verdict", "confidence", "raw_response"}
    ELSE {p}

\* Keys of the to_database_format of secondary client p.
DbKeys(p) ==
  CASE p = "grok" ->
         {"grok_score", "grok_recommendation", "grok_verdict", "grok_confidence",
          "grok_raw_response", "grok_cultural_analysis", "grok_brutal_honesty",
          "grok_controversy_analysis", "grok_movie_poster_url", "grok_poster_prompt"}
    [] p = "openai" ->
         {"openai_score", "openai_recommendation", "openai_verdict",
          "openai_confidence", "openai_raw_response",
          "openai_commercial_assessment", "openai_technical_craft",
          "openai_industry_comparison", "openai_movie_poster_url",
          "openai_poster_prompt"}
    [] p = "gpt5" ->
         {"gpt5_score", "gpt5_recommendation", "gpt5_executive_assessment",
          "gpt5_reasoning_depth", "gpt5_reasoning_tokens", "gpt5_confidence",
          "gpt5_processing_time", "gpt5_cost", "gpt5_raw_response",
          "gpt5_character_voice_analysis", "gpt5_dialogue_authenticity",
          "gpt5_prose_quality", "gpt5_emotional_beat_mapping",
          "gpt5_professional_markers", "gpt5_amateur_indicators",
          "gpt5_industry_comparison"}
    [] p = "deepseek" ->
         {"deepseek_box_office_prediction", "deepseek_budget_optimization",
          "deepseek_roi_analysis", "deepseek_risk_assessment",
          "deepseek_production_optimization", "deepseek_platform_analysis",
          "deepseek_financial_score", "deepseek_confidence",
          "deepseek_recommendation", "deepseek_cost", "deepseek_processing_time",
          "deepseek_success", "deepseek_error_message", "deepseek_raw_response"}
    [] p = "perplexity" ->
         {"perplexity_market_trends", "perplexity_competitive_analysis",
          "perplexity_industry_reports", "perplexity_distribution_strategy",
          "perplexity_talent_intelligence", "perplexity_financial_intelligence",
          "perplexity_sources_cited", "perplexity_market_score",
          "perplexity_competitive_advantage", "perplexity_recommendation",
          "perplexity_cost", "perplexity_processing_time",
          "perplexity_research_date", "perplexity_data_freshness",
          "perplexity_success", "perplexity_error_message"}
    [] p = "poster" ->
         {"poster_collection_title", "poster_collection_genre", "poster_total_cost",
          "poster_total_time", "poster_success_count", "poster_best_url",
          "poster_best_source", "poster_variations_json"}

\* The dict a to_database_format returns for value o of origin p: every key
\* holds a field of that value.
DbFormat(keys, p, o) == [k \in keys |-> <<p, o>>]

\* dict.update
Update(d, e) ==
  [k \in DOMAIN d \cup DOMAIN e |-> IF k \in DOMAIN e THEN e[k] ELSE d[k]]

\* The gathered values an orchestrator replaces by None when they are
\* exceptions: the PDF orchestrator has no isinstance test for DeepSeek and
\* Perplexity.
ExceptionsHandled(k) ==
  IF k = "pdf" THEN {"grok", "openai", "gpt5", "poster"} ELSE Secondary

\* The gathered values as the merge step finds them.
AfterHandling(k, res) ==
  [p \in Secondary |->
     IF res[p] = "raised" /\ p \in ExceptionsHandled(k) THEN "none" ELSE res[p]]

\* `if x_result:` — None is falsy; a result object, a poster collection and
\* an exception object are truthy.
Present(o) == o # "none"

\* `db_data.update(x.to_database_format(x_result))` for the clients of ord
\* whose value is present.
RECURSIVE UpdateEach(_, _, _)
UpdateEach(d, vals, ord) ==
  IF ord = <<>> THEN d
  ELSE LET p == Head(ord)
       IN UpdateEach(IF Present(vals[p])
                       THEN Update(d, DbFormat(DbKeys(p), p, vals[p])) ELSE d,
                     vals, Tail(ord))

\* The merge step raises AttributeError: to_database_format reads the
\* fields of its argument, which None (the primary result after a failed
\* primary call in the PDF orchestrator) and an exception object do not have.
MergeRaises(primary, vals, ord) ==
  primary = "none" \/ \E i \in DOMAIN ord : vals[ord[i]] = "raised"

\* db_data from to_database_format(result) to the last update, the secondary
\* results applied in the order ord.
MergeRecord(primary, vals, source, ord) ==
  LET d0 == DbFormat(PrimaryKeys, "claude", primary)
      d1 == UpdateEach(d0, vals, ord)
      d2 == IF Present(source) THEN Update(d1, DbFormat(SourceKeys, "source", source))
            ELSE d1
  IN Update(d2, DbFormat(JobKeys, "job", "ok"))

\* The values asyncio.gather can return when every client has credentials.
MergeInputs ==
  [grok : {"result", "none", "raised"}, openai : {"result", "none", "raised"},
   gpt5 : {"result", "none"}, deepseek : {"result", "raised"},
   perplexity : {"result", "failed", "raised"}, poster : {"result", "empty", "none"}]

\* No merge in progress.
NoMerge ==
  [pc |-> "off", kind |-> "none", primary |-> "unset", vals |-> NoRes,
   source |-> "unset", order |-> <<>>, raised |-> FALSE, db_data |-> <<>>]

\* The merge step of the orchestrator (from to_database_format(result) to
\* the last db_data.update).
BuildRecord ==
  /\ merger.pc = "gathered"
  /\ LET m == merger IN
     merger' =
       IF MergeRaises(m.primary, m.vals, MergeOrder)
         THEN [m EXCEPT !.pc = "raised", !.order = MergeOrder, !.raised = TRUE]
         ELSE [m EXCEPT !.pc = "merged", !.order = MergeOrder,
                        !.db_data = MergeRecord(m.primary, m.vals, m.source,
                                                MergeOrder)]
  /\ UNCHANGED <<jobVars, streamVars, undelivered, idle_polls, parser, tiering,
                 openai_client>>

\* The merge step with the results of the two clients a and b only, a's
\* applied first.
MergePair(a, b) ==
  /\ merger.pc = "gathered"
  /\ a # b
  /\ LET m == merger IN
     merger' =
       IF MergeRaises(m.primary, m.vals, <<a, b>>)
         THEN [m EXCEPT !.pc = "raised", !.order = <<a, b>>, !.raised = TRUE]
         ELSE [m EXCEPT !.pc = "merged", !.order = <<a, b>>,
                        !.db_data = MergeRecord(m.primary, m.vals, m.source,
                                                <<a, b>>)]
  /\ UNCHANGED <<jobVars, streamVars, undelivered, idle_polls, parser, tiering,
                 openai_client>>

\* ----------------------------------------------------------- budget tiers

\* The tiers in ascending order.
TierOrder == <<"micro", "low", "mid", "high", "tentpole">>

\* Position of tier t in the order.
TierRank(t) == CHOOSE i \in DOMAIN TierOrder : TierOrder[i] = t

\* Mutant of categorize_budget: an amount on a boundary stays in the tier
\* below.
categorize_budget_inclusive(b) ==
  IF b <= LOW_MIN THEN "micro"
  ELSE IF b <= MID_MIN THEN "low"
  ELSE IF b <= HIGH_MIN THEN "mid"
  ELSE IF b <= TENTPOLE_MIN THEN "high"
  ELSE "tentpole"

\* categorize_budget(budget), amounts in USD.
categorize_budget(b) ==
  IF b < LOW_MIN THEN "micro"
  ELSE IF b < MID_MIN THEN "low"
  ELSE IF b < HIGH_MIN THEN "mid"
  ELSE IF b < TENTPOLE_MIN THEN "high"
  ELSE "tentpole"

\* The amounts categorised: each boundary, its two neighbours, and amounts
\* far from every boundary (a negative one included).
Amounts ==
  UNION {{m - 1, m, m + 1} : m \in {LOW_MIN, MID_MIN, HIGH_MIN, TENTPOLE_MIN}}
    \cup {0 - 1, 0, 3 * LOW_MIN, 2 * MID_MIN, 4 * TENTPOLE_MIN}

\* No amount is being categorised.
NoTiering == [pc |-> "off", b1 |-> 0, b2 |-> 0, t1 |-> "none", t2 |-> "none"]

\* categorize_budget applied to the two amounts.
Categorize ==
  /\ tiering.pc = "given"
  /\ tiering' = [tiering EXCEPT !.pc = "categorized",
                                !.t1 = categorize_budget(tiering.b1),
                                !.t2 = categorize_budget(tiering.b2)]
  /\ UNCHANGED <<jobVars, streamVars, undelivered, idle_polls, parser, merger,
                 openai_client>>

\* ---------------------------------------------------- the OpenAI client

\* input_cost_per_token and output_cost_per_token of a model, in USD per
\* million tokens.
Pricing(model) ==
  IF model = "gpt-5" THEN [input |-> 10, output |-> 30]
  ELSE [input |-> 5, output |-> 15]

\* OpenAIAnalyzer.__init__ with OPENAI_MODEL = model.
NewClient(model) ==
  [pc |-> "idle", model |-> model, fallback_model |-> "gpt-4o",
   rates |-> Pricing(model), configured |-> [model |-> model, rates |-> Pricing(model)],
   calls |-> 0, costs |-> <<>>]

\* No client is followed.
NoClient ==
  [pc |-> "off", model |-> "none", fallback_model |-> "none",
   rates |-> [input |-> 0, output |-> 0],
   configured |-> [model |-> "none", rates |-> [input |-> 0, output |-> 0]],
   calls |-> 0, costs |-> <<>>]

\* The return of analyze after a response: the cost is computed from the
\* rates the client holds now (one thousand tokens in, one thousand out).
Answered(c) ==
  [c EXCEPT !.pc = "idle", !.calls = @ + 1,
            !.costs = Append(@, c.rates.input + c.rates.output)]

\* The return of analyze after an exception: None, no cost.
Failed(c) == [c EXCEPT !.pc = "idle", !.calls = @ + 1, !.costs = Append(@, 0)]

\* analyze up to the await of the first request.
OpenAICall ==
  /\ openai_client.pc = "idle"
  /\ openai_client.calls < MaxCalls
  /\ openai_client' = [openai_client EXCEPT !.pc = "first"]
  /\ UNCHANGED <<jobVars, streamVars, undelivered, idle_polls, parser, merger,
                 tiering>>

\* `model ... not found`: the rates of the client are set to the fallback
\* model's and the request is repeated with fallback_model.
FallBack(c) == [c EXCEPT !.pc = "fallback", !.rates = Pricing(c.fallback_model)]

\* The first request (self.model) ended with outcome o.
OpenAIFirst(o) ==
  /\ openai_client.pc = "first"
  /\ o \in {"ok", "model_not_found", "error"}
  /\ openai_client' =
       CASE o = "ok" -> Answered(openai_client)
         [] o = "model_not_found" -> FallBack(openai_client)
         [] o = "error" -> Failed(openai_client)
  /\ UNCHANGED <<jobVars, streamVars, undelivered, idle_polls, parser, merger,
                 tiering>>

\* The request with fallback_model ended with outcome o.
OpenAIFallback(o) ==
  /\ openai_client.pc = "fallback"
  /\ o \in {"ok", "error"}
  /\ openai_client' =
       IF o = "ok" THEN Answered(openai_client) ELSE Failed(openai_client)
  /\ UNCHANGED <<jobVars, streamVars, undelivered, idle_polls, parser, merger,
                 tiering>>

\* ---------------------------------------------------------- specifications

\* The state of the jobs, the queue, the stores and the stream after start-up.
InitJobs(n, keysets, posterflags, faults) ==
  /\ api_keys \in keysets
  /\ poster_enabled \in posterflags
  /\ kind = [j \in 1..n |-> "none"]
  /\ pc = [j \in 1..n |-> "idle"]
  /\ attempt = [j \in 1..n |-> 0]
  /\ delay = [j \in 1..n |-> 0]
  /\ result = [j \in 1..n |-> "unset"]
  /\ source_result = [j \in 1..n |-> "unset"]
  /\ running = [j \in 1..n |-> {}]
  /\ loop_busy = 0
  /\ sem_value = MAX_CONCURRENT_ANALYSES
  /\ waiters = <<>>
  /\ analysis_queue_size = 0
  /\ status = [j \in 1..n |-> "absent"]
  /\ saved = [j \in 1..n |-> {}]
  /\ cost = [j \in 1..n |-> NoCost]
  /\ ledger = [j \in 1..n |-> <<>>]
  /\ progress_store = [j \in 1..n |-> NoProgress]
  /\ progress_time = [j \in 1..n |-> 0]
  /\ now = 0
  /\ stream_pc = "off"
  /\ stream_id = 0
  /\ last_update = 0
  /\ timeout_count = 0
  /\ emitted = {}
  /\ last_emitted = <<>>
  /\ undelivered = {}
  /\ idle_polls = 0
  /\ hist = [j \in 1..n |-> NoHist]
  /\ faults_left = faults

InitWith(n, keysets, posterflags, faults) ==
  /\ InitJobs(n, keysets, posterflags, faults)
  /\ parser = NoParse
  /\ merger = NoMerge
  /\ tiering = NoTiering
  /\ openai_client = NoClient

\* The orchestrators under every configuration of credentials.
Init == InitWith(NumJobs, SUBSET ApiKeys, BOOLEAN, Unlimited)

Next ==
  \E j \in JobIds :
    \/ Submit(j)
    \/ Enter(j)
    \/ SourceReturn(j)
    \/ RetryWake(j)
    \/ PrimaryReturn(j)
    \/ \E p \in Secondary : Settle(j, p)
    \/ Finish(j)

Spec == Init /\ [][Next]_vars

\* The queue: more submissions than slots, no secondary credentials.
InitQueue == InitWith(QueueJobs, {{}}, {FALSE}, QueueFaults)

NextQueue ==
  \E j \in JobIds :
    \/ Submit(j)
    \/ Enter(j)
    \/ Wake(j)
    \/ RetryWake(j)
    \/ PrimaryReturn(j)
    \/ Finish(j)

SpecQueue == InitQueue /\ [][NextQueue]_vars

\* The primary call and its retries: jobs without secondary credentials and
\* any number of failing calls.
InitRetry == InitWith(RetryJobs, {{}}, {FALSE}, Unlimited)

NextRetry ==
  \E j \in JobIds :
    \/ Submit(j)
    \/ Enter(j)
    \/ RetryWake(j)
    \/ PrimaryReturn(j)
    \/ Finish(j)

SpecRetry == InitRetry /\ [][NextRetry]_vars

\* One job without secondary credentials and a consumer of its progress
\* stream, which may connect at any time (before the submission too).
InitStream == InitWith(StreamJobs, {{}}, {FALSE}, StreamFaults)

NextStream ==
  \/ \E j \in JobIds :
       \/ Submit(j)
       \/ Enter(j)
       \/ RetryWake(j)
       \/ PrimaryReturn(j)
       \/ Finish(j)
       \/ StreamOpen(j)
  \/ StreamPoll
  \/ StreamTimeout

SpecStream == InitStream /\ [][NextStream]_vars

\* The event loop shared by jobs that make awaited calls (Grok is the one
\* secondary provider with credentials), the synchronous primary call, and
\* a progress stream.
InitLoop == InitWith(LoopJobs, {{"XAI_API_KEY"}}, {FALSE}, LoopFaults)

\* A step of job j that holds a slot.
JobStep(j) ==
  \/ RetryWake(j)
  \/ PrimaryReturn(j)
  \/ \E p \in Secondary : Settle(j, p)
  \/ Finish(j)

NextLoop ==
  \/ \E j \in JobIds :
       \/ Submit(j)
       \/ Enter(j)
       \/ JobStep(j)
       \/ StreamOpen(j)
  \/ StreamPoll
  \/ StreamTimeout

SpecLoop == InitLoop /\ [][NextLoop]_vars

\* The parse step of a secondary provider on each of the documents, cut at
\* any length.
InitRepair ==
  /\ InitJobs(RepairJobs, {{}}, {FALSE}, Unlimited)
  /\ parser \in {[NoParse EXCEPT !.pc = "answering", !.document = d] : d \in Documents}
  /\ merger = NoMerge
  /\ tiering = NoTiering
  /\ openai_client = NoClient

NextRepair ==
  \/ \E n \in 1..Len(parser.document) : Respond(n)
  \/ FixTruncated
  \/ ParseResponse

SpecRepair == InitRepair /\ [][NextRepair]_vars

\* The merge step on every combination of gathered values; the primary
\* result is None only in the PDF orchestrator, which goes on after a failed
\* primary call.
InitMerge ==
  /\ InitJobs(MergeJobs, {{}}, {FALSE}, Unlimited)
  /\ parser = NoParse
  /\ merger \in {[NoMerge EXCEPT !.pc = "gathered", !.kind = k, !.primary = pr,
                                 !.vals = AfterHandling(k, res), !.source = src]
                  : k \in {"text", "pdf"}, pr \in {"ok", "none"},
                    res \in MergeInputs, src \in {"none", "ok", "failed"}}
  /\ merger.kind = "text" => merger.primary = "ok"
  /\ tiering = NoTiering
  /\ openai_client = NoClient

NextMerge ==
  \/ BuildRecord
  \/ \E a, b \in Secondary : MergePair(a, b)

SpecMerge == InitMerge /\ [][NextMerge]_vars

\* categorize_budget on pairs of amounts.
InitBudget ==
  /\ InitJobs(PureJobs, {{}}, {FALSE}, Unlimited)
  /\ parser = NoParse
  /\ merger = NoMerge
  /\ tiering \in {[NoTiering EXCEPT !.pc = "given", !.b1 = x, !.b2 = y]
                   : x \in Amounts, y \in Amounts}
  /\ openai_client = NoClient

NextBudget == Categorize

SpecBudget == InitBudget /\ [][NextBudget]_vars

\* A sequence of analyze calls on one OpenAIAnalyzer instance, configured
\* with either model.
InitClient ==
  /\ InitJobs(PureJobs, {{}}, {FALSE}, Unlimited)
  /\ parser = NoParse
  /\ merger = NoMerge
  /\ tiering = NoTiering
  /\ openai_client \in {NewClient(m) : m \in {"gpt-5", "gpt-4o"}}

NextClient ==
  \/ OpenAICall
  \/ \E o \in {"ok", "model_not_found", "error"} : OpenAIFirst(o)
  \/ \E o \in {"ok", "error"} : OpenAIFallback(o)

SpecClient == InitClient /\ [][NextClient]_vars

\* ------------------------------------------------------------------ claims

Terminal == {"completed", "error"}

NotStarted == {"idle", "submitted", "waiting"}

AllDone == \A j \in JobIds : pc[j] = "done"

\* C1: at most MAX_CONCURRENT_ANALYSES job bodies are mid-execution at the
\* same time, and a queued job starts its body only in a step that begins
\* with fewer than MAX_CONCURRENT_ANALYSES bodies mid-execution, that is,
\* after a running job has released its slot.
C1_AtMostNBodies ==
  /\ [](Cardinality(InBody) <= MAX_CONCURRENT_ANALYSES)
  /\ [][\A j \in JobIds :
         (pc[j] \in NotStarted /\ pc'[j] \notin NotStarted)
           => Cardinality(InBody) < MAX_CONCURRENT_ANALYSES]_vars

\* C1 witness: a job that had to wait is mid-execution together with
\* MAX_CONCURRENT_ANALYSES - 1 others, and one job has finished.
C1_Witness ==
  /\ Cardinality(InBody) = MAX_CONCURRENT_ANALYSES
  /\ \E j \in InBody : hist[j].waited
  /\ \E j \in JobIds : pc[j] = "done"

\* C2: a slot is held only by a job whose body is mid-execution, whether the
\* bodies that ended returned or raised (the handler itself raising
\* included); once every submitted job has finished all
\* MAX_CONCURRENT_ANALYSES slots are free.
C2_SlotsReleased ==
  /\ sem_value + Cardinality(InBody) = MAX_CONCURRENT_ANALYSES
  /\ AllDone => sem_value = MAX_CONCURRENT_ANALYSES

\* C2 witness: every job has finished, one by an exception that left its
\* error handler, one by a normal return, and one after waiting for a slot.
C2_Witness ==
  /\ AllDone
  /\ sem_value = MAX_CONCURRENT_ANALYSES
  /\ \E j \in JobIds : hist[j].exit = "raise"
  /\ \E j \in JobIds : hist[j].exit = "return" /\ status[j] = "completed"
  /\ \E j \in JobIds : hist[j].waited

\* ---- what the calls of a finished job did

AllEnabled == api_keys = ApiKeys /\ poster_enabled

StoreFailed(o) == o \in {"false", "raise"}

\* Client p handed over something other than a successful result.
ProviderFailed(p, o) ==
  o \in {"failed", "empty", "raised"} \/ (o = "none" /\ IsEnabled(p))

\* The secondary providers whose call or task raised.
RaisedIn(j) ==
  hist[j].callraised
    \cup {p \in Secondary : hist[j].res[p] = "raised"}

\* No task of an enabled secondary provider failed.
SecondariesFine(j) == \A p \in Secondary : ~ProviderFailed(p, hist[j].res[p])

\* asyncio.gather has returned in job j: its fan-out ran.
FanOutRan(j) == hist[j].res # NoRes

\* Nothing but the secondary providers failed: extraction, source analysis,
\* primary call and Result Store.
RestFine(j) ==
  /\ hist[j].pdf # "failed"
  /\ hist[j].source # "failed"
  /\ hist[j].primary = "ok"
  /\ ~StoreFailed(hist[j].save)
  /\ ~StoreFailed(hist[j].upd)

TerminalEvent(e) == e.stage \in {"complete", "error"}

\* C3: on both submission paths, when the primary provider, every secondary
\* provider and the Result Store succeed, the job ends with Job State
\* `completed` and a last progress event `complete` at 100.
C3_AllSucceedCompleted ==
  \A j \in JobIds :
    (pc[j] = "done" /\ AllEnabled /\ RestFine(j) /\ SecondariesFine(j))
      => /\ status[j] = "completed"
         /\ progress_store[j] = Ev("complete", 100)

\* C4: when the primary call fails definitively and nothing else fails, the
\* job is not aborted: the fan-out runs and the job ends `completed` with a
\* saved record.
C4_PrimaryFailureCompletes ==
  \A j \in JobIds :
    (/\ pc[j] = "done"
     /\ hist[j].primary = "failed"
     /\ hist[j].pdf # "failed" /\ hist[j].source # "failed"
     /\ SecondariesFine(j)
     /\ ~StoreFailed(hist[j].save) /\ ~StoreFailed(hist[j].upd))
      => /\ FanOutRan(j)
         /\ status[j] = "completed"
         /\ saved[j] # {}

\* C5: when secondary providers raise and nothing else fails, the successful
\* results of the other secondary providers are in the saved record and the
\* job does not end in `error`.
C5_FanOutIsolation ==
  \A j \in JobIds :
    (pc[j] = "done" /\ RaisedIn(j) # {} /\ RestFine(j))
      => /\ status[j] = "completed"
         /\ FanOutRan(j)
         /\ \A q \in Secondary : hist[j].res[q] = "result" => q \in saved[j]

\* C6: whatever subset of the secondary providers fails or is disabled, when
\* nothing else fails the job ends `completed`, never `error`, and the saved
\* record holds the fields of exactly the providers that succeeded.
C6_PartialSuccess ==
  \A j \in JobIds :
    (pc[j] = "done" /\ RestFine(j))
      => /\ status[j] = "completed"
         /\ FanOutRan(j)
         /\ saved[j] \cap Secondary = {p \in Secondary : hist[j].res[p] = "result"}

\* C7: when save_analysis returns failure, the job's final Job State is
\* `error` and the last progress event has stage `error`.
C7_SaveFailureIsError ==
  \A j \in JobIds :
    (pc[j] = "done" /\ hist[j].save = "false")
      => /\ status[j] = "error"
         /\ progress_store[j].stage = "error"

\* C8: every job whose body has run to its end has Job State `completed` or
\* `error` in the Result Store and a terminal progress event.
C8_NeverStuckProcessing ==
  \A j \in JobIds :
    pc[j] = "done" => status[j] \in Terminal /\ TerminalEvent(progress_store[j])

\* C9: a record saved as `completed` stays `completed` (the handler never
\* sets it to `error` afterwards), and no step changes a terminal Job State.
C9_TerminalIsFinal ==
  /\ [](\A j \in JobIds : hist[j].save = "ok" => status[j] = "completed")
  /\ [][\A j \in JobIds : status[j] \in Terminal => status'[j] = status[j]]_vars

\* C9 witness: a job was saved as `completed` by a step that also handled a
\* task that raised, and its orchestrator has returned.
C9_Witness ==
  \E j \in JobIds :
    /\ pc[j] = "done" /\ hist[j].save = "ok" /\ status[j] = "completed"
    /\ RaisedIn(j) # {}

\* C10: while secondary tasks of a job are in flight its primary call has
\* completed, and while the primary call is in flight (suspended between
\* two attempts) no secondary task of the job has started.
C10_PrimaryBeforeFanOut ==
  \A j \in JobIds :
    /\ running[j] # {} => hist[j].primary \in {"ok", "failed"} /\ pc[j] = "gather"
    /\ pc[j] = "sleep" => running[j] = {} /\ hist[j].primary = "pending"

\* C10 witness: the tasks of the fan-out are in flight after a primary call
\* that was suspended for a retry and then succeeded.
C10_Witness ==
  \E j \in JobIds :
    /\ running[j] # {} /\ attempt[j] > 0 /\ hist[j].primary = "ok"

\* ---- usage ledger and cost

\* The rows of job j's ledger for provider p (the primary provider's
\* api_provider 'anthropic' is written "claude" here, 'xai' is "grok").
LedgerRows(j, p) == {i \in DOMAIN ledger[j] : ledger[j][i].provider = p}

\* The providers job j invoked: the primary one once an attempt was made,
\* and every enabled secondary one once the fan-out ran.
Invoked(j) ==
  (IF hist[j].primary # "pending" THEN {"claude"} ELSE {})
    \cup {p \in Secondary : IsEnabled(p) /\ FanOutRan(j)}

InvocationFailed(j, p) ==
  IF p = "claude" THEN hist[j].primary = "failed"
  ELSE ProviderFailed(p, hist[j].res[p])

\* C11: after a job has finished (its orchestrator returned and no ledger
\* insert failed) the ledger holds exactly one row for every provider the
\* job invoked, primary and secondary, and the row of a failed invocation
\* has success = false, cost 0 and the error text.
C11_LedgerPerInvokedProvider ==
  \A j \in JobIds :
    (pc[j] = "done" /\ hist[j].exit = "return" /\ hist[j].untracked = {})
      => \A p \in Invoked(j) :
           /\ Cardinality(LedgerRows(j, p)) = 1
           /\ InvocationFailed(j, p) =>
                \A i \in LedgerRows(j, p) :
                  ~ledger[j][i].success /\ ledger[j][i].cost = 0 /\ ledger[j][i].error

\* The sum of the cost fields of the provider results of job j: primary,
\* secondary and source analysis, 0 for a failed or skipped provider.
SumOfCosts(j) ==
  LET res == hist[j].res IN
  CostOf(hist[j].primary) + CostOf(hist[j].source)
    + CostOf(res["grok"]) + CostOf(res["openai"]) + CostOf(res["gpt5"])
    + CostOf(res["deepseek"]) + CostOf(res["perplexity"]) + CostOf(res["poster"])

\* C12: the cost of the persisted record of a completed job is the sum of
\* the cost fields of all provider results of the job.
C12_AggregateCostIsSum ==
  \A j \in JobIds : status[j] = "completed" => cost[j] = SumOfCosts(j)

\* ---- progress stream

\* C13: the progress stream of any job id ends after a bounded number of
\* polls without news: it is never still polling after more than
\* max_timeout + 1 polls since the last update_progress for its id (or since
\* it was opened), whether or not the id has an entry in the progress store.
C13_StreamTerminates ==
  stream_pc = "polling" => idle_polls <= max_timeout + 1

\* C14: a consumer connected to the stream of a job receives every progress
\* event written for the job from then on: when the stream has ended on the
\* terminal event no written event is left undelivered.
C14_EveryEventEmitted ==
  stream_pc = "ended" => undelivered = {}

\* ---- the primary provider's retry loop

\* C15: in _call_claude_api an overloaded error is retried along the
\* schedule 5, 10, 20, 30, 40, 50, 60 seconds, so at most
\* Len(RetryDelays) + 1 attempts are made; a call that failed as overloaded
\* failed on the last of these attempts; and every step of the loop either
\* starts the next sleep with a higher attempt number or ends the call.
C15_BoundedBackoff ==
  /\ [](\A j \in JobIds :
         /\ attempt[j] <= Len(RetryDelays)
         /\ pc[j] = "sleep" => attempt[j] >= 1 /\ delay[j] = RetryDelays[attempt[j]]
         /\ (hist[j].primary = "failed" /\ hist[j].cause = "overloaded")
              => hist[j].failed_attempt = Len(RetryDelays))
  /\ [][\A j \in JobIds :
         (pc[j] = "primary" /\ pc'[j] # "primary")
           => \/ pc'[j] = "sleep" /\ attempt'[j] = attempt[j] + 1
              \/ hist'[j].primary \in {"ok", "failed"}]_vars

\* C15 witness: a call that was overloaded on all Len(RetryDelays) + 1
\* attempts has ended as a failure.
C15_Witness ==
  \E j \in JobIds :
    /\ pc[j] = "done" /\ hist[j].primary = "failed" /\ hist[j].cause = "overloaded"
    /\ hist[j].failed_attempt = Len(RetryDelays)

\* C16: an error other than the overloaded one ends the call on the attempt
\* on which it occurs: the call has failed, and the job is neither in a
\* backoff sleep nor in a further attempt, however many overloaded retries
\* came before.
C16_OtherErrorNotRetried ==
  \A j \in JobIds :
    hist[j].cause = "error"
      => hist[j].primary = "failed" /\ pc[j] \notin {"sleep", "primary"}

\* C16 witness: a call failed with another error after overloaded retries.
C16_Witness ==
  \E j \in JobIds :
    hist[j].cause = "error" /\ hist[j].primary = "failed" /\ hist[j].failed_attempt >= 2

\* ---- suspension points

\* Job j is waiting for the response of a provider: the primary call, the
\* source analysis, or tasks of the fan-out.
AtProviderCall(j) ==
  pc[j] \in {"primary", "source"} \/ (pc[j] = "gather" /\ running[j] # {})

\* Job i holds a slot and what it awaits can complete.
CanResume(i) == pc[i] \in {"source", "sleep", "gather"}

\* The stream is between two polls of its wait loop.
StreamWaiting ==
  stream_pc = "polling" /\ timeout_count < max_timeout /\ now < MaxClock

\* C17: every provider call is a suspension point: while a job waits for a
\* provider's response, the primary provider's included, every other job
\* that holds a slot and the wait loop of the progress stream can take
\* their next step.
C17_ProviderCallsSuspend ==
  \A j \in JobIds :
    AtProviderCall(j)
      => /\ \A i \in JobIds \ {j} : CanResume(i) => ENABLED JobStep(i)
         /\ StreamWaiting => ENABLED StreamPoll

\* ---- parse step and JSON repair

\* C18: malformed provider output is never surfaced as a provider failure:
\* for any response text _parse_response returns (validated or defaulted
\* fields) instead of raising, so analyze yields a result.
C18_MalformedNeverFailure ==
  parser.pc = "parsed"
    => parser.outcome # "raise" /\ analyze(parser.outcome) = "result"

\* The response is a valid JSON object cut strictly inside a string value,
\* inside a nested object or inside a nested array.
CutInside ==
  LET cut == json_loads(parser.response)
  IN /\ json_loads(parser.document).ok
     /\ Len(parser.response) < Len(parser.document)
     /\ \/ cut.mode \in {"vstr", "vesc"}
        \/ Len(cut.stack) >= 2

\* C19: for a valid JSON object cut strictly inside a string value, a
\* nested object or a nested array, _fix_truncated_json returns a text that
\* json.loads parses.
C19_RepairParses ==
  parser.pc = "fixed" /\ CutInside => json_loads(parser.json_str).ok

\* C20: for a valid JSON text _fix_truncated_json returns a text that
\* parses to the same structure, also when string values contain braces,
\* brackets or escaped quotes.
C20_RepairKeepsValid ==
  parser.pc = "fixed" /\ parser.response = parser.document
                      /\ json_loads(parser.document).ok
    => /\ json_loads(parser.json_str).ok
       /\ json_loads(parser.json_str).ev = json_loads(parser.document).ev

\* ---- merge step

C22_MergeCommutes ==
  merger.pc = "merged" /\ Len(merger.order) = 2
    => merger.db_data =
         MergeRecord(merger.primary, merger.vals, merger.source,
                     <<merger.order[2], merger.order[1]>>)

\* Two present secondary results were merged, first a's then b's.
C22_Witness ==
  /\ merger.pc = "merged"
  /\ Len(merger.order) = 2
  /\ \A i \in 1..2 : merger.vals[merger.order[i]] \in {"result", "failed", "empty"}
  /\ \A i \in 1..2 : \A k \in DbKeys(merger.order[i]) :
        merger.db_data[k] = <<merger.order[i], merger.vals[merger.order[i]]>>

\* ---- budget tiers

\* C23: categorize_budget returns one of the five tiers, it is monotonic
\* (b1 <= b2 implies tier(b1) <= tier(b2) in the order micro < low < mid <
\* high < tentpole), and the boundaries 1,000,000, 5,000,000, 20,000,000 and
\* 50,000,000 belong to the higher tier.
C23_TiersMonotonic ==
  tiering.pc = "categorized"
    => /\ \E i \in DOMAIN TierOrder : tiering.t1 = TierOrder[i]
       /\ tiering.b1 <= tiering.b2 => TierRank(tiering.t1) <= TierRank(tiering.t2)
       /\ tiering.b1 = LOW_MIN => tiering.t1 = "low"
       /\ tiering.b1 = MID_MIN => tiering.t1 = "mid"
       /\ tiering.b1 = HIGH_MIN => tiering.t1 = "high"
       /\ tiering.b1 = TENTPOLE_MIN => tiering.t1 = "tentpole"

\* An amount on a boundary and the amount just below it were categorised.
C23_Witness ==
  /\ tiering.pc = "categorized"
  /\ tiering.b2 = MID_MIN
  /\ tiering.b1 = MID_MIN - 1
  /\ tiering.t1 = "low"
  /\ tiering.t2 = "mid"

\* ---- provider client

\* C24: an analyze call, successful or failed, leaves the client's
\* configuration (model and per-token rates) as it was, so that the cost of
\* a later call does not depend on earlier calls.
C24_ClientUnchanged ==
  openai_client.pc = "idle" /\ openai_client.calls > 0
    => /\ openai_client.model = openai_client.configured.model
       /\ openai_client.rates = openai_client.configured.rates

\* ---- fan-out

\* C25: the run of the orchestrator that writes `saving`, merges and saves
\* (the one that receives the gathered values) starts only when every task
\* of the fan-out has settled, failures included: no secondary task of the
\* job is running when the record is merged and saved.
C25_SavingAfterAllSettled ==
  /\ [](\A j \in JobIds : hist[j].res # NoRes => running[j] = {})
  /\ [][\A j \in JobIds :
          hist[j].res = NoRes /\ hist'[j].res # NoRes
            => pc[j] = "gather" /\ running[j] = {} /\ running'[j] = {}]_vars

\* C25 witness: a job was saved after a fan-out in which one task raised and
\* another returned a result.
C25_Witness ==
  \E j \in JobIds :
    /\ hist[j].save = "ok"
    /\ \E p, q \in Secondary :
         hist[j].res[p] = "raised" /\ hist[j].res[q] = "result"

\* ---- progress numbers

\* C26: within a job the progress numbers written to the Progress Tracker
\* never decrease, on any path, the failure paths included.
C26_ProgressMonotonic == \A j \in JobIds : ~hist[j].decreased

\* ---- the messages of the progress stream

\* C27: the stream yields nothing after it has yielded a Progress Event with
\* progress >= 100 or stage complete/error; a poll that yields a Progress
\* Event sets the idle count to zero; a poll that yields none is the next
\* idle poll in a row, and yields a heartbeat exactly when it is the 1st,
\* 6th, 11th, ... of the row; the stream ends by timeout exactly after
\* max_timeout idle polls in a row; and for a job with an entry in the
\* Progress Tracker the idle count after a poll is the number of polls made
\* since the one that yielded the last event written.
\* (EventsOf: the Progress Events among the messages of a step, a heartbeat
\* having no stage and `stream_ended` being the stream's own last message;
\* HeartbeatsOf: the heartbeats among them.)
C27_StreamProtocol ==
  /\ [](/\ stream_pc = "polling" => timeout_count <= max_timeout
        /\ stream_pc = "timed_out" => timeout_count = max_timeout)
  /\ [][LET EventsOf(msgs) ==
              {i \in DOMAIN msgs :
                 "stage" \in DOMAIN msgs[i] /\ msgs[i].stage # "stream_ended"}
            HeartbeatsOf(msgs) ==
              {i \in DOMAIN msgs : DOMAIN msgs[i] = {"heartbeat"}}
        IN
        /\ stream_pc \in {"ended", "timed_out"} =>
             UNCHANGED <<stream_pc, emitted, last_emitted>>
        /\ (\E i \in EventsOf(last_emitted') :
              last_emitted' # last_emitted /\ last_emitted'[i].progress >= 100)
             => stream_pc' = "ended"
        /\ now' = now + 1 /\ progress_time[stream_id] # 0 =>
             timeout_count' = idle_polls' - 1
        /\ now' = now + 1 =>
             IF EventsOf(last_emitted') # {}
               THEN /\ timeout_count' = 0
                    /\ \A i \in EventsOf(last_emitted') :
                         last_emitted'[i].stage \in {"complete", "error"}
                           => stream_pc' = "ended"
               ELSE /\ timeout_count' = timeout_count + 1
                    /\ stream_pc' = "polling"
                    /\ HeartbeatsOf(last_emitted') # {}
                         <=> (timeout_count + 1) % heartbeat_interval = 1]_vars

\* A stream that yielded a Progress Event and heartbeats and then ended by
\* timeout.
C27_Witness ==
  /\ stream_pc = "timed_out"
  /\ "heartbeat" \in emitted
  /\ emitted \ {"connected", "heartbeat", "stream_ended"} # {}
  /\ timeout_count = max_timeout

\* C29: when the stream has ended, after a terminal event or after the idle
\* timeout, the last message it yielded is `stream_ended` with progress
\* 100, whatever the last Progress Event of the job was.
C29_LastIsStreamEnded ==
  stream_pc \in {"ended", "timed_out"} =>
    /\ last_emitted # <<>>
    /\ last_emitted[Len(last_emitted)].stage = "stream_ended"
    /\ last_emitted[Len(last_emitted)].progress = 100

\* The stream of a failed job has ended: the `error` event with progress 0
\* was followed by `stream_ended`.
C29_Witness ==
  /\ stream_pc = "ended"
  /\ Len(last_emitted) = 2
  /\ last_emitted[1].stage = "error"
  /\ last_emitted[1].progress = 0
  /\ last_emitted[2] = StreamEnded

\* ---- the `complete` event

\* C28: the `complete` event (progress 100) is written only after
\* save_analysis has succeeded: a job whose latest progress event is
\* `complete` has status `completed` and a saved record in the Result Store.
C28_CompleteAfterSave ==
  \A j \in JobIds :
    progress_store[j].stage = "complete" =>
      /\ progress_store[j].progress = 100
      /\ status[j] = "completed"
      /\ saved[j] # {}
      /\ hist[j].save = "ok"

\* A job that has returned with `complete` as its latest event.
C28_Witness ==
  \E j \in JobIds :
    progress_store[j].stage = "complete" /\ pc[j] = "done" /\ hist[j].save = "ok"

\* ---- the queue counter

\* C30: analysis_queue_size is never negative and equals the number of jobs
\* that have entered queued_analysis and have not acquired a slot yet (the
\* tasks among the semaphore's waiters); it is zero when no submitted job is
\* left without its slot.
C30_QueueSizeCountsWaiters ==
  /\ analysis_queue_size >= 0
  /\ analysis_queue_size = Cardinality({j \in JobIds : pc[j] = "waiting"})
  /\ analysis_queue_size = Len(waiters)
  /\ (\A j \in JobIds : pc[j] \notin {"submitted", "waiting"})
       => analysis_queue_size = 0

\* Every job was submitted and has acquired its slot, one of them after
\* waiting for it, and the counter is back to zero.
C30_Witness ==
  /\ \A j \in JobIds : pc[j] \notin {"idle", "submitted", "waiting"}
  /\ \E j \in JobIds : hist[j].waited
  /\ analysis_queue_size = 0

====
